---- MODULE Spec2Model ----
(***************************************************************************)
(* The three adapter base classes of the repository as one state machine:  *)
(*   "compound"  LQGBasePoolAdapter of the Compound optimizer              *)
(*               (morphoCompoundV2OptimizerBorrowAdapter.ts, lines 91-497) *)
(*   "aave"      LQGBasePoolAdapter of the Aave optimizer                  *)
(*               (unnamed/part_000, lines 55-454)                          *)
(*   "vault"     LQGBlueVaultAdapter (morphoBlueVaultAdapter.ts)           *)
(*                                                                         *)
(* One behaviour is the life of one adapter instance.  An operation is an  *)
(* async function: it runs atomically from one await to the next, so an    *)
(* action is either the call of an operation (its code up to the first     *)
(* await) or the completion of one RPC call together with the whole        *)
(* continuation that the completion releases.  The chain answers an RPC    *)
(* with a value drawn from a small set, or with an error.                  *)
(*                                                                         *)
(* The method bodies are modelled as they stand in the sources; the        *)
(* CacheToFile wrapper that the leaf classes put around buildMetadata is   *)
(* not among the sources and is not modelled.  The first buildMetadata of  *)
(* an operation is modelled call by call; a later buildMetadata inside the *)
(* same operation (the pool lookups repeat it) is one completion step that *)
(* either fails or yields the mapping of the registry at that moment.      *)
(*                                                                         *)
(* Spec has one caller, who awaits each operation before calling the next; *)
(* SpecConcurrent has two callers on one compound instance; SpecStall has  *)
(* a provider that may leave one per-market call unanswered; SpecFair is   *)
(* Spec with every awaited RPC call eventually settling; SpecSides runs    *)
(* getPositions and getTotalValueLocked of a supply and of a borrow leaf   *)
(* of either pool base class.                                              *)
(***************************************************************************)
EXTENDS Integers, Sequences, FiniteSets, TLC

\* ------------------------------------------------------------------ bounds
MaxMarkets == 2      \* markets (vaults) the registry can hold
MaxEnumerations == 2 \* registry reads the compound instance issues at most

Slots == {1, 2}      \* operations that can be in flight at once

\* --------------------------------------------------------------- addresses
\* An address is its 20 bytes (id) and the letter case of its hex string:
\* cs = TRUE is the checksummed mixed-case string ethers returns, cs = FALSE
\* the all-lowercase string.  The zero address has no letters.
Addr(i, c) == [id |-> i, cs |-> c]

ZERO_ADDRESS == Addr(0, TRUE)

toLowerCase(a) == IF a.id = 0 THEN a ELSE Addr(a.id, FALSE)

getAddress(a) == Addr(a.id, TRUE)

Markets == 1..MaxMarkets

\* The address a registry read (getAllMarkets, getMarketsCreated, the
\* CreateMetaLQG event's args[0]) reports for market m: decoded by ethers.
MarketAddress(m) == Addr(m, TRUE)

\* The underlying asset of market m on chain.
UnderlyingAsset(m) == Addr(10 + m, TRUE)

\* What a caller can pass as protocolTokenAddress: either spelling of any
\* market, in the registry or not.
AddressArgs == {Addr(m, c) : m \in Markets, c \in BOOLEAN}

\* ------------------------------------------------------------ token metadata
TokenDecimals(i) == IF i = 0 THEN 18 ELSE IF i \in Markets THEN 8 ELSE 18

\* getTokenMetadata(address, chainId, provider): the Erc20Metadata of a token.
getTokenMetadata(a) ==
    [address |-> getAddress(a), name |-> a.id, symbol |-> a.id,
     decimals |-> TokenDecimals(a.id)]

\* ------------------------------------------------------- the metadata object
\* A JavaScript object with string keys: a sequence of entries in insertion
\* order, no key twice.  Assigning an existing key keeps its place.
KeyIndex(md, k) == {i \in 1..Len(md) : md[i].key = k}

Put(md, k, pt, ut) ==
    LET e == [key |-> k, protocolToken |-> pt, underlyingToken |-> ut]
    IN  IF KeyIndex(md, k) = {}
        THEN Append(md, e)
        ELSE [i \in 1..Len(md) |-> IF md[i].key = k THEN e ELSE md[i]]

\* md[k]: <<>> is undefined, <<e>> the entry.
Get(md, k) == IF KeyIndex(md, k) = {} THEN <<>>
              ELSE <<md[CHOOSE i \in KeyIndex(md, k) : TRUE]>>

Keys(md) == {md[i].key : i \in 1..Len(md)}

\* Object.values(md).map(({ protocolToken }) => protocolToken)
ProtocolTokensOf(md) == [i \in 1..Len(md) |-> md[i].protocolToken]

\* ------------------------------------------------------------------ errors
NotFound == [error |-> "Protocol token pool not found"]

RpcError(call, m) == [error |-> "rpc", call |-> call, market |-> m]

RangeError(what) == [error |-> "RangeError", what |-> what]

NotImplementedError == [error |-> "NotImplementedError"]

\* The value of an unset variable, and the one falsy rejection value.
Undefined == [error |-> "undefined"]

Truthy(v) == v # Undefined

\* --------------------------------------------------------- values on chain
\* A lens balance read answers (balance on pool, balance in peer-to-peer,
\* total balance).
BalanceAnswers == {<<0, 0, 0>>, <<1, 2, 3>>}

\* A lens totals read answers two amounts, one per side (the adapters
\* destructure them as pool and peer-to-peer and add them);
\* the compound adapter records next to them the exchange rate it reads
\* (rate: <<>> until exchangeRateStored has answered).
TotalsAnswers == {<<0, 0>>, <<1, 2>>}

\* cToken.exchangeRateStored(), a wad.
RateAnswers == {0, 40}

\* A vault read answers (balanceOf, vault decimals, asset decimals).
VaultAnswers == {<<0, 1, 0>>, <<25, 1, 0>>, <<25, 0, 1>>}

\* vault.totalAssets()
AssetsAnswers == 0..1

\* --------------------------------------------------------------- arithmetic
\* evm-maths' WAD is 10^18; the model's unit is scaled to TLC's integers.
WAD == 100

\* JavaScript BigInt division truncates; the operands here are never negative.
\* WadMath.wadDiv(x, y) = mulDivHalfUp(x, WAD, y): the set of its outcomes,
\* <<"ok", v>> or <<"throw", e>>.  Dividing by 0n throws a RangeError; the
\* library answers 0n for x = 0 before it divides in some versions.
wadDiv(x, y) ==
    IF y = 0
    THEN (IF x = 0 THEN {<<"ok", 0>>} ELSE {})
         \cup {<<"throw", RangeError("Division by zero")>>}
    ELSE {<<"ok", (x * WAD + y \div 2) \div y>>}

RECURSIVE Pow10(_)
Pow10(n) == IF n = 0 THEN 1 ELSE 10 * Pow10(n - 1)

\* 10n ** e: a negative exponent throws a RangeError.
BigIntPow10(e) ==
    IF e < 0 THEN <<"throw", RangeError("Exponent must be non-negative")>>
    ELSE <<"ok", Pow10(e)>>

\* ------------------------------------------------------------------- state
VARIABLES
    adapter,        \* "compound", "aave" or "vault": the class of the instance
    positionType,   \* getProtocolDetails().positionType of the leaf class
    nMarkets,       \* the chain: the registry holds markets 1..nMarkets
    cache,          \* compound: _metadataCache, <<>> for null, <<md>> once set
    ops,            \* per slot, the operation in flight or last settled there
    enumerations,   \* history: registry reads the compound instance issued
    assignments,    \* history: assignments to _metadataCache
    built           \* history: what the last two buildMetadata calls in a row returned

vars == <<adapter, positionType, nMarkets, cache, ops,
          enumerations, assignments, built>>

\* An operation: its arguments, where it stands, its locals and its outcome
\* (out = "pending", then "ok" with result or "err" with error).
Idle ==
    [kind |-> "none", eventType |-> "none", addr |-> ZERO_ADDRESS,
     filter |-> <<>>, out |-> "idle", stage |-> "none",
     markets |-> <<>>, task |-> <<>>, supply |-> <<>>, obj |-> <<>>,
     entry |-> <<>>, entry2 |-> <<>>, found |-> <<>>,
     tokens |-> <<>>, st |-> <<>>,
     resp |-> <<>>, rows |-> <<>>, logs |-> <<>>,
     result |-> <<>>, error |-> Undefined]

\* A settled operation's locals are gone, but for what it read.
Settled(o) == [o EXCEPT !.stage = "done", !.supply = <<>>, !.obj = <<>>,
                        !.st = <<>>, !.found = <<>>, !.rows = <<>>]

Return(o, r) == [Settled(o) EXCEPT !.out = "ok", !.result = r]

\* A bug that swallows the rejection: the operation resolves with what
\* it has.
ThrowSwallowed(o, e) == [Settled(o) EXCEPT !.out = "ok"]

\* A bug that retries: the failed step is issued again and the operation
\* goes on waiting.
ThrowRetries(o, e) == o

\* A rejection inside an operation (a rejected await, a throw) rejects the
\* operation's promise: no return statement runs.
Throw(o, e) == [Settled(o) EXCEPT !.out = "err", !.error = e]

Pending(o) == o.out = "pending"

\* A bug that joins with Promise.race: the first callback to finish
\* resolves the aggregate.
AllInRace(seq, S) == \E i \in 1..Len(seq) : seq[i] \in S

\* Promise.all over the callbacks whose states are seq resolves when each
\* of them has reached a state of S.
AllIn(seq, S) == \A i \in 1..Len(seq) : seq[i] \in S

\* ------------------------------------------------------ results, as built
\* { ...underlyingToken, balanceRaw, type: TokenType.Underlying }
Underlying(ut, raw) ==
    [address |-> ut.address, name |-> ut.name, symbol |-> ut.symbol,
     decimals |-> ut.decimals, balanceRaw |-> raw, type |-> "underlying"]

\* A bug that returns the underlying token without the balance.
getUnderlyingTokenBalancesNoBalance(ut, protocolTokenBalance) ==
    <<Underlying(ut, 0)>>

\* getUnderlyingTokenBalances of the pool adapters
getUnderlyingTokenBalances(ut, protocolTokenBalance) ==
    <<Underlying(ut, protocolTokenBalance.balanceRaw)>>

\* The position the pool adapters build for one non-zero balance b
\* ({address, balance}) from the metadata entries of b.address that
\* fetchProtocolTokenMetadata (pe) and getUnderlyingTokenBalances (ue) found.
PoolPosition(b, pe, ue) ==
    LET tokenMetadata == pe.protocolToken
        completeTokenBalance ==
            [address |-> b.address, balanceRaw |-> b.balance,
             name |-> tokenMetadata.name, symbol |-> tokenMetadata.symbol,
             decimals |-> tokenMetadata.decimals]
    IN  [address |-> b.address, balance |-> b.balance,
         balanceRaw |-> b.balance, name |-> tokenMetadata.name,
         symbol |-> tokenMetadata.symbol,
         decimals |-> tokenMetadata.decimals, type |-> "protocol",
         tokens |-> getUnderlyingTokenBalances(ue.underlyingToken,
                                               completeTokenBalance)]

\* The lens method the pool adapters read, by side.
BalanceMethod(pt) == IF pt = "supply" THEN "getCurrentSupplyBalanceInOf"
                     ELSE "getCurrentBorrowBalanceInOf"

\* A bug that reads the borrow totals whatever the side.
TotalsMethodBorrowOnly(pt) == "getTotalMarketBorrow"

TotalsMethod(pt) == IF pt = "supply" THEN "getTotalMarketSupply"
                    ELSE "getTotalMarketBorrow"

\* protocolTokensBalances: {address, balance} per token, balance the third
\* component of the lens answer.
ProtocolTokensBalances(o) ==
    [k \in 1..Len(o.tokens) |->
        [address |-> o.tokens[k].address, balance |-> o.resp[k].value[3]]]

\* A bug that keeps every balance.
NonZeroKeepsAll(b) == TRUE

\* .filter((protocolTokenBalance) => protocolTokenBalance.balance !== 0n)
NonZero(b) == b.balance # 0

\* A bug that forgets the peer-to-peer side.
TotalValueRawPoolOnly(totals) == totals[1]

\* const totalValueRaw = poolSupply + p2pSupply (or the borrow pair), from
\* the lens's answer [p2p, pool].
TotalValueRaw(totals) == totals[1] + totals[2]

\* A bug that swaps the operands.
TvlInProtocolTokensSwapped(totalValueRaw, exchangeRate) ==
    wadDiv(exchangeRate, totalValueRaw)

\* compound getTotalValueLocked: WadMath.wadDiv(totalValueRaw, exchangeRate),
\* the set of its outcomes.
TvlInProtocolTokens(totalValueRaw, exchangeRate) ==
    wadDiv(totalValueRaw, exchangeRate)

\* -------------------------------------------------------- metadata entries
\* (EntryKeyLowercased is a bug that files a market under the lowercased
\* registry address.)
\* The key buildMetadata files a market under: the pool adapters use the
\* address of the fetched protocol token, the vault adapter the vault
\* address of the factory event.
EntryKeyLowercased(marketAddress, protocolToken) ==
    toLowerCase(marketAddress)

EntryKey(marketAddress, protocolToken) ==
    IF adapter = "vault" THEN marketAddress ELSE protocolToken.address

\* A bug that starts from an empty object in every callback: the mapping
\* holds the market of the last callback to finish.
PutMarketAlone(md, marketAddress, supplyTokenAddress) ==
    LET protocolToken == getTokenMetadata(marketAddress)
        underlyingToken == getTokenMetadata(supplyTokenAddress)
    IN  <<[key |-> marketAddress, protocolToken |-> protocolToken,
           underlyingToken |-> underlyingToken]>>

\* metadataObject[key] = { protocolToken, underlyingToken } for one market.
PutMarket(md, marketAddress, supplyTokenAddress) ==
    LET protocolToken == getTokenMetadata(marketAddress)
        underlyingToken == getTokenMetadata(supplyTokenAddress)
    IN  Put(md, EntryKey(marketAddress, protocolToken),
            protocolToken, underlyingToken)

\* underlying().catch((err) => { if (err) return ZERO_ADDRESS; throw err })
\* applied to a rejection with reason err.  (CatchUnderlyingRethrows is the
\* call without its catch handler.)
CatchUnderlyingRethrows(err) == <<"throw", err>>

CatchUnderlying(err) ==
    IF Truthy(err) THEN <<"ok", ZERO_ADDRESS>> ELSE <<"throw", err>>

\* The reasons the provider rejects a call with: Error objects.
Rejections(call, m) == {RpcError(call, m)}

\* A whole buildMetadata as one step, for the lookups that repeat it: the
\* outcomes of (await this.buildMetadata())[a] with the pool-not-found test.
\* A pool market's underlying() may have been caught in that build.
SupplyAddresses(m) ==
    IF adapter = "vault" THEN {UnderlyingAsset(m)}
    ELSE {UnderlyingAsset(m), ZERO_ADDRESS}

FetchPoolMetadata(a) ==
    LET all == UNION {{Get(PutMarket(<<>>, MarketAddress(m), u), a) :
                          u \in SupplyAddresses(m)} : m \in 1..nMarkets}
        found == {e \in all : e # <<>>}
    IN  {<<"throw", r>> : r \in Rejections("buildMetadata", 0)}
        \cup (IF found = {} THEN {<<"throw", NotFound>>}
              ELSE {<<"ok", e[1]>> : e \in found})

\* -------------------------------------------------------------- event logs
MaxLogs == 2         \* logs an event query returns at most

RECURSIVE BitLength(_)
BitLength(x) == IF x = 0 THEN 0 ELSE 1 + BitLength(x \div 2)

RECURSIVE Pow2(_)
Pow2(n) == IF n = 0 THEN 1 ELSE 2 * Pow2(n - 1)

\* An event's uint256 amount is wider than TLC's integers: <<hi, lo>> is
\* the amount hi * 2^30 + lo, with lo below 2^30.
Limb == Pow2(30)

\* The amounts of the k-th log of an answer: a small one, or one above 2^53.
SmallAmount(k) == <<0, 7 * k>>

LargeAmount(k) == <<Pow2(23), k>>

\* The logs a queryFilter for market address a can return: ethers decodes
\* the indexed _poolToken topic to the checksummed address, whatever the
\* spelling the filter was built from.
Log(a, k, amount) ==
    [hasArgs |-> TRUE,
     args |-> [poolToken |-> getAddress(a), amount |-> amount],
     blockNumber |-> 100 + k, transactionHash |-> k]

LogAnswers(a) ==
    {[k \in 1..n |-> Log(a, k, SmallAmount(k))] : n \in 0..MaxLogs}
    \cup {[k \in 1..n |-> Log(a, k, LargeAmount(k))] : n \in 1..MaxLogs}

\* Number(x) of a BigInt: the nearest double, ties to even.  A double has
\* MantissaBits significant bits; an amount of more bits loses its low ones.
MantissaBits == 53

BigBitLength(x) == IF x[1] = 0 THEN BitLength(x[2]) ELSE 30 + BitLength(x[1])

Number(x) ==
    IF BigBitLength(x) <= MantissaBits THEN x
    ELSE LET unit == Pow2(BigBitLength(x) - MantissaBits)
             q == x[2] \div unit
             r == x[2] % unit
             up == r * 2 > unit \/ (r * 2 = unit /\ q % 2 = 1)
             lo == (IF up THEN q + 1 ELSE q) * unit
         IN  IF lo = Limb THEN <<x[1] + 1, 0>> ELSE <<x[1], lo>>

\* BigInt(n) of an integral double.
BigInt(n) == n

\* One movement of the compound adapter (_getMovements, the map callback).
CompoundMovement(e, event) ==
    [protocolToken |-> e.protocolToken,
     tokens |-> <<Underlying(e.underlyingToken, event.args.amount)>>,
     blockNumber |-> event.blockNumber,
     transactionHash |-> event.transactionHash]

\* One movement of the aave adapter, from the entries its two lookups of
\* eventData._poolToken found.
AaveMovement(pe, ue, event) ==
    [protocolToken |-> pe.protocolToken,
     tokens |-> <<Underlying(ue.underlyingToken, event.args.amount)>>,
     blockNumber |-> event.blockNumber,
     transactionHash |-> event.transactionHash]

\* One movement of the vault adapter: the amount goes through Number and
\* back through BigInt.
VaultMovement(protocolToken, underlyingToken, event) ==
    [protocolToken |-> protocolToken,
     tokens |-> <<Underlying(underlyingToken,
                             BigInt(Number(event.args.amount)))>>,
     blockNumber |-> event.blockNumber,
     transactionHash |-> event.transactionHash]

\* The position the vault adapter pushes for one vault with a positive
\* balance: <<"ok", position>> or <<"throw", e>>.  (VaultPositionUndivided
\* is a bug that reports the shares as the asset amount.)
VaultPositionUndivided(protocolToken, underlyingToken, ans) ==
    <<"ok",
      [tokenId |-> protocolToken.address, address |-> protocolToken.address,
       name |-> protocolToken.name, symbol |-> protocolToken.symbol,
       decimals |-> protocolToken.decimals,
       balanceRaw |-> ans[1], type |-> "protocol",
       tokens |-> <<Underlying(underlyingToken, ans[1])>>]>>

VaultPosition(protocolToken, underlyingToken, ans) ==
    LET balanceRaw == ans[1]
        p == BigIntPow10(ans[2] - ans[3])
    IN  IF p[1] = "throw" THEN p
        ELSE <<"ok",
               [tokenId |-> protocolToken.address,
                address |-> protocolToken.address,
                name |-> protocolToken.name,
                symbol |-> protocolToken.symbol,
                decimals |-> protocolToken.decimals,
                balanceRaw |-> balanceRaw, type |-> "protocol",
                tokens |-> <<Underlying(underlyingToken,
                                        balanceRaw \div p[2])>>]>>

\* { ...tokenMetadata, type, totalSupplyRaw } of the pool adapters
PoolTvl(tokenMetadata, totalValueRaw) ==
    [address |-> tokenMetadata.address, name |-> tokenMetadata.name,
     symbol |-> tokenMetadata.symbol, decimals |-> tokenMetadata.decimals,
     type |-> "protocol", totalSupplyRaw |-> totalValueRaw]

\* The entry the vault adapter's getTotalValueLocked returns for one vault.
VaultTvl(protocolToken, underlyingToken, protocolTokenTotalAsset) ==
    [address |-> protocolToken.address, name |-> protocolToken.name,
     symbol |-> underlyingToken.symbol,
     decimals |-> underlyingToken.decimals,
     type |-> "protocol", totalSupplyRaw |-> protocolTokenTotalAsset]

\* helpers.unwrapOneToOne({ protocolToken, underlyingTokens })
unwrapOneToOne(protocolToken, underlyingTokens) ==
    [address |-> protocolToken.address, name |-> protocolToken.name,
     symbol |-> protocolToken.symbol, decimals |-> protocolToken.decimals,
     baseRate |-> 1, type |-> "protocol",
     tokens |-> [i \in 1..Len(underlyingTokens) |->
                    [address |-> underlyingTokens[i].address,
                     name |-> underlyingTokens[i].name,
                     symbol |-> underlyingTokens[i].symbol,
                     decimals |-> underlyingTokens[i].decimals,
                     type |-> "underlying",
                     underlyingRateRaw |-> Pow10(protocolToken.decimals)]]]

\* ------------------------------------------- what follows the metadata
NoAnswer == [method |-> "none", market |-> ZERO_ADDRESS, value |-> <<>>]

\* vault getPositions: the tokens whose lowercased address is among the
\* lowercased protocolTokenAddresses, or all of them when none are passed.
FilteredTokens(protocolTokens, filter) ==
    IF filter = <<>> THEN protocolTokens
    ELSE LET wanted == {toLowerCase(a) : a \in filter[1]}
             Keep(token) == toLowerCase(token.address) \in wanted
         IN  SelectSeq(protocolTokens, Keep)

\* vault getTotalValueLocked: the callback returns undefined at once for a
\* token whose address protocolTokenAddresses does not include.
TvlSkips(token, filter) == filter # <<>> /\ token.address \notin filter[1]

\* getPositions after `await this.getProtocolTokens()`.
PositionsAfterTokens(o, md) ==
    LET tokens == IF adapter = "vault"
                  THEN FilteredTokens(ProtocolTokensOf(md), o.filter)
                  ELSE ProtocolTokensOf(md)
        o1 == [o EXCEPT !.tokens = tokens,
                        !.resp = [k \in 1..Len(tokens) |-> NoAnswer]]
    IN  IF tokens = <<>> THEN Return(o1, <<>>)
        ELSE [o1 EXCEPT
                !.stage = "tokens",
                !.st = [k \in 1..Len(tokens) |->
                          IF adapter = "vault" THEN "underlying"
                          ELSE "balance"]]

\* getTotalValueLocked after `await this.getProtocolTokens()`.
TvlAfterTokens(o, md) ==
    LET tokens == ProtocolTokensOf(md)
        st == [k \in 1..Len(tokens) |->
                 IF adapter # "vault" THEN "totals"
                 ELSE IF TvlSkips(tokens[k], o.filter) THEN "skipped"
                 ELSE "underlying"]
        o1 == [o EXCEPT !.tokens = tokens, !.st = st,
                        !.resp = [k \in 1..Len(tokens) |-> NoAnswer],
                        !.rows = [k \in 1..Len(tokens) |-> <<>>]]
    IN  IF AllIn(st, {"skipped"}) THEN Return(o1, <<>>)
        ELSE [o1 EXCEPT !.stage = "tokens"]

\* compound _getMovements, vault getMovements and unwrap after the
\* metadata of the first lookup arrived: the pool-not-found test, then the
\* next await (the event query; in the vault the second lookup).
LookupAfterMetadata(o, md) ==
    LET e == Get(md, o.addr)
    IN  IF e = <<>> THEN Throw(o, NotFound)
        ELSE [o EXCEPT !.entry = e,
                       !.stage = IF adapter = "vault" THEN "underlying"
                                 ELSE "logs"]

AfterMetadata(o, md) ==
    CASE o.kind = "buildMetadata" -> Return(o, md)
      [] o.kind = "getProtocolTokens" -> Return(o, ProtocolTokensOf(md))
      [] o.kind = "getPositions" -> PositionsAfterTokens(o, md)
      [] o.kind = "getTotalValueLocked" -> TvlAfterTokens(o, md)
      [] OTHER -> LookupAfterMetadata(o, md)

RECURSIVE Flatten(_)
Flatten(rows) == IF rows = <<>> THEN <<>>
                 ELSE Head(rows) \o Flatten(Tail(rows))

\* pool getPositions after the Promise.all of the balance reads: the filter
\* on non-zero balances, then per kept balance the two metadata lookups.
\* Compound finds the metadata in its cache and finishes in the same turn.
PositionsAfterBalances(o) ==
    LET bals == SelectSeq(ProtocolTokensBalances(o), NonZero)
        hit == [k \in 1..Len(bals) |-> Get(cache[1], bals[k].address)]
    IN  IF adapter = "compound"
        THEN IF \E k \in 1..Len(bals) : hit[k] = <<>>
             THEN Throw(o, NotFound)
             ELSE Return(o, [k \in 1..Len(bals) |->
                               PoolPosition(bals[k], hit[k][1], hit[k][1])])
        ELSE IF bals = <<>> THEN Return(o, <<>>)
             ELSE [o EXCEPT !.stage = "details",
                            !.st = [k \in 1..Len(bals) |-> "details"],
                            !.rows = [k \in 1..Len(bals) |-> <<>>]]

\* The operation once task k of the current fan-out is done with row r
\* (<<>> for none): Promise.all resolves when every task is done.
RowDone(o, k, r) ==
    LET o1 == [o EXCEPT !.st[k] = "done", !.rows[k] = r]
    IN  IF AllIn(o1.st, {"done", "skipped"})
        THEN Return(o1, Flatten(o1.rows)) ELSE o1

\* ------------------------------------------------------------------ actions
\* getProtocolDetails().positionType of the leaf classes in the sources:
\* compound optimizer-borrow, aave optimizer-supply and optimizer-borrow,
\* and the vault.
LeafPositionTypes(a) ==
    CASE a = "compound" -> {"borrow"}
      [] a = "aave" -> {"supply", "borrow"}
      [] a = "vault" -> {"supply"}

Init ==
    /\ adapter \in {"compound", "aave", "vault"}
    /\ positionType \in LeafPositionTypes(adapter)
    /\ nMarkets = 1
    /\ cache = <<>>
    /\ ops = [s \in Slots |-> Idle]
    /\ enumerations = 0
    /\ assignments = 0
    /\ built = <<>>

\* The slot's operation becomes o2.  built keeps what the buildMetadata
\* calls returned for as long as no other operation is called.
Settle(s, o2) ==
    /\ ops' = [ops EXCEPT ![s] = o2]
    /\ LET kept == IF ops[s] = Idle /\ Len(built) > 1
                   THEN <<built[Len(built)]>> ELSE built
       IN  built' = IF o2.kind # "buildMetadata" THEN <<>>
                    ELSE IF o2.out # "ok" THEN kept
                    ELSE IF Len(kept) > 1 THEN <<kept[Len(kept)], o2.result>>
                    ELSE Append(kept, o2.result)

\* The chain: the registry gains a market.
RegistryGains ==
    /\ nMarkets < MaxMarkets
    /\ nMarkets' = nMarkets + 1
    /\ UNCHANGED <<adapter, positionType, cache, ops, enumerations,
                   assignments, built>>

\* The caller's await of a settled operation resumes: the promise's value or
\* error is consumed and the caller is free to call again.
Await(s) ==
    /\ ~Pending(ops[s]) /\ ops[s] # Idle
    /\ ops' = [ops EXCEPT ![s] = Idle]
    /\ UNCHANGED <<adapter, positionType, nMarkets, cache, enumerations,
                   assignments, built>>

\* An operation's code up to its first await.  unwrap of the pool adapters
\* throws at once; aave getMovements starts with the event query; compound
\* returns its cache when set; everything else starts buildMetadata with
\* the registry read.
\* A bug that resolves the address before it throws: unwrap of the pool
\* adapters starts buildMetadata as the other operations do.
BeginResolvesFirst(o) ==
    IF o.kind = "getMovements" /\ adapter = "aave"
    THEN [o EXCEPT !.stage = "logs"]
    ELSE IF adapter = "compound" /\ cache # <<>>
    THEN AfterMetadata(o, cache[1])
    ELSE [o EXCEPT !.stage = "registry"]

Begin(o) ==
    IF o.kind = "unwrap" /\ adapter # "vault"
    THEN Throw(o, NotImplementedError)
    ELSE IF o.kind = "getMovements" /\ adapter = "aave"
    THEN [o EXCEPT !.stage = "logs"]
    ELSE IF adapter = "compound" /\ cache # <<>>
    THEN AfterMetadata(o, cache[1])
    ELSE [o EXCEPT !.stage = "registry"]

Call(s, kind, eventType, addr, filter) ==
    LET o == Begin([Idle EXCEPT !.kind = kind, !.eventType = eventType,
                                !.addr = addr, !.filter = filter,
                                !.out = "pending"])
    IN  /\ ops[s] = Idle
        /\ o.stage = "registry" => enumerations < MaxEnumerations
        /\ Settle(s, o)
        /\ enumerations' = IF adapter = "compound" /\ o.stage = "registry"
                           THEN enumerations + 1 ELSE enumerations
        /\ UNCHANGED <<adapter, positionType, nMarkets, cache, assignments>>

\* What a caller can pass as protocolTokenAddresses: nothing, or a list
\* holding market 1 in either spelling.
FilterArgs == {<<>>} \cup {<<{Addr(1, c)}>> : c \in BOOLEAN}

CallBuildMetadata(s) == Call(s, "buildMetadata", "none", ZERO_ADDRESS, <<>>)

CallGetProtocolTokens(s) ==
    Call(s, "getProtocolTokens", "none", ZERO_ADDRESS, <<>>)

CallGetPositions(s) ==
    \E f \in FilterArgs : Call(s, "getPositions", "none", ZERO_ADDRESS, f)

CallGetTotalValueLocked(s) ==
    \E f \in FilterArgs :
        Call(s, "getTotalValueLocked", "none", ZERO_ADDRESS, f)

CallGetDeposits(s) ==
    \E a \in AddressArgs :
        Call(s, "getMovements",
             IF adapter = "vault" THEN "deposit" ELSE "supplied", a, <<>>)

CallGetWithdrawals(s) ==
    \E a \in AddressArgs :
        Call(s, "getMovements",
             IF adapter = "vault" THEN "withdraw" ELSE "withdrawn", a, <<>>)

CallGetBorrows(s) ==
    /\ adapter # "vault"
    /\ \E a \in AddressArgs : Call(s, "getMovements", "borrowed", a, <<>>)

CallGetRepays(s) ==
    /\ adapter # "vault"
    /\ \E a \in AddressArgs : Call(s, "getMovements", "repaid", a, <<>>)

CallUnwrap(s) == \E a \in AddressArgs : Call(s, "unwrap", "none", a, <<>>)

\* An RPC call's outcomes: <<"ok", v>> for v among the answers, or
\* <<"throw", e>> for a rejection.
Outcomes(answers, call, m) ==
    {<<"ok", v>> : v \in answers} \cup {<<"throw", e>> : e \in Rejections(call, m)}

\* buildMetadata once every market's callback is done: compound stores the
\* object in _metadataCache; the caller goes on with it.
BuildDone(s, o) ==
    /\ Settle(s, AfterMetadata(o, o.obj))
    /\ cache' = IF adapter = "compound" THEN <<o.obj>> ELSE cache
    /\ assignments' = IF adapter = "compound" THEN assignments + 1
                      ELSE assignments

\* A bug that writes through: the step stores what it works on into the
\* protocol-token records of the cached mapping instead of into a copy.
NoCacheChangeWritesThrough ==
    /\ cache' = [i \in DOMAIN cache |->
                   [j \in DOMAIN cache[i] |->
                      [cache[i][j] EXCEPT !.protocolToken.decimals = 0]]]
    /\ UNCHANGED assignments

NoCacheChange == UNCHANGED <<cache, assignments>>

Frame == UNCHANGED <<adapter, positionType, nMarkets, enumerations>>

\* The registry read of buildMetadata returns (getAllMarkets,
\* getMarketsCreated, queryFilter(CreateMetaLQG)): one callback per market
\* starts, with the underlying() call in the pool adapters, with the two
\* getTokenMetadata calls in the vault adapter.
RegistryAnswer(s) ==
    /\ Pending(ops[s]) /\ ops[s].stage = "registry"
    /\ \E r \in Outcomes({nMarkets}, "registry", 0) :
         LET o == ops[s]
             n == r[2]
             o1 == [o EXCEPT
                      !.stage = "markets",
                      !.markets = [k \in 1..n |-> MarketAddress(k)],
                      !.supply = [k \in 1..n |->
                                    IF adapter = "vault"
                                    THEN UnderlyingAsset(k)
                                    ELSE ZERO_ADDRESS],
                      !.task = [k \in 1..n |->
                                  IF adapter = "vault" THEN "meta"
                                  ELSE "underlying"],
                      !.resp = [k \in 1..n |-> NoAnswer]]
         IN  IF r[1] = "throw" THEN Settle(s, Throw(o, r[2])) /\ NoCacheChange
             ELSE IF n = 0 THEN BuildDone(s, o1)
             ELSE Settle(s, o1) /\ NoCacheChange
    /\ Frame

\* A market's underlying() / UNDERLYING_ASSET_ADDRESS() call settles; a
\* rejection goes through the catch handler.
UnderlyingAnswer(s, k) ==
    /\ Pending(ops[s]) /\ ops[s].stage = "markets"
    /\ k \in 1..Len(ops[s].task) /\ ops[s].task[k] = "underlying"
    /\ \E a \in Outcomes({UnderlyingAsset(k)}, "underlying", k) :
         LET r == IF a[1] = "throw" THEN CatchUnderlying(a[2]) ELSE a
             o == [ops[s] EXCEPT !.resp[k] = [method |-> "underlying",
                                              market |-> ops[s].markets[k],
                                              value |-> a]]
         IN  IF r[1] = "throw" THEN Settle(s, Throw(o, r[2]))
             ELSE Settle(s, [o EXCEPT !.supply[k] = r[2],
                                      !.task[k] = "meta"])
    /\ NoCacheChange /\ Frame

\* A market's Promise.all of the two getTokenMetadata calls settles; the
\* callback files the market in metadataObject.
TokenMetadataAnswer(s, k) ==
    /\ Pending(ops[s]) /\ ops[s].stage = "markets"
    /\ k \in 1..Len(ops[s].task) /\ ops[s].task[k] = "meta"
    /\ \E r \in Outcomes({"metadata"}, "getTokenMetadata", k) :
         LET o == ops[s]
             o1 == [o EXCEPT
                      !.obj = PutMarket(o.obj, o.markets[k], o.supply[k]),
                      !.task[k] = "done"]
         IN  IF r[1] = "throw" THEN Settle(s, Throw(o, r[2])) /\ NoCacheChange
             ELSE IF AllIn(o1.task, {"done"}) THEN BuildDone(s, o1)
             ELSE Settle(s, o1) /\ NoCacheChange
    /\ Frame

Quiet == NoCacheChange /\ Frame

InTokens(s, kind, k, st) ==
    /\ Pending(ops[s]) /\ ops[s].kind = kind /\ ops[s].stage = "tokens"
    /\ k \in 1..Len(ops[s].st) /\ ops[s].st[k] = st

\* pool getPositions: the lens balance read of token k settles.
BalanceAnswer(s, k) ==
    /\ adapter # "vault" /\ InTokens(s, "getPositions", k, "balance")
    /\ \E r \in Outcomes(BalanceAnswers, "balance", k) :
         LET o == ops[s]
             o1 == [o EXCEPT
                      !.st[k] = "read",
                      !.resp[k] = [method |-> BalanceMethod(positionType),
                                   market |-> o.tokens[k].address,
                                   value |-> r[2]]]
         IN  IF r[1] = "throw" THEN Settle(s, Throw(o, r[2]))
             ELSE IF AllIn(o1.st, {"read"})
             THEN Settle(s, PositionsAfterBalances(o1))
             ELSE Settle(s, o1)
    /\ Quiet

\* aave getPositions: the two lookups of kept balance k settle
\* (fetchProtocolTokenMetadata, then getUnderlyingTokenBalances).
DetailsAnswer(s, k) ==
    /\ adapter = "aave" /\ Pending(ops[s]) /\ ops[s].stage = "details"
    /\ k \in 1..Len(ops[s].st) /\ ops[s].st[k] = "details"
    /\ LET o == ops[s]
           b == SelectSeq(ProtocolTokensBalances(o), NonZero)[k]
       IN  \E r1 \in FetchPoolMetadata(b.address),
              r2 \in FetchPoolMetadata(b.address) :
             IF r1[1] = "throw" THEN Settle(s, Throw(o, r1[2]))
             ELSE IF r2[1] = "throw" THEN Settle(s, Throw(o, r2[2]))
             ELSE Settle(s, RowDone(o, k, <<PoolPosition(b, r1[2], r2[2])>>))
    /\ Quiet

\* vault getPositions and getTotalValueLocked: token k's first
\* getUnderlyingToken settles; the reads of the vault follow.
VaultUnderlyingAnswer(s, k) ==
    /\ adapter = "vault" /\ Pending(ops[s]) /\ ops[s].stage = "tokens"
    /\ k \in 1..Len(ops[s].st) /\ ops[s].st[k] = "underlying"
    /\ LET o == ops[s]
       IN  \E r \in FetchPoolMetadata(o.tokens[k].address) :
             IF r[1] = "throw" THEN Settle(s, Throw(o, r[2]))
             ELSE Settle(s, [o EXCEPT
                               !.st[k] = IF o.kind = "getPositions"
                                         THEN "reads" ELSE "assets",
                               !.found = [j \in 1..Len(o.tokens) |->
                                            IF j = k THEN <<r[2]>>
                                            ELSE IF j \in DOMAIN o.found
                                                 THEN o.found[j] ELSE <<>>]])
    /\ Quiet

\* The vault operation once token k's callback is done: getPositions
\* returns the positions pushed so far when every callback is done.
VaultCallbackDone(o, k) ==
    LET o1 == [o EXCEPT !.st[k] = "done"]
    IN  IF AllIn(o1.st, {"done"}) THEN Return(o1, o1.rows) ELSE o1

\* vault getPositions: the Promise.all of balanceOf, decimals and decimals
\* settles; a positive balance asks getUnderlyingToken again.
VaultReadsAnswer(s, k) ==
    /\ adapter = "vault" /\ InTokens(s, "getPositions", k, "reads")
    /\ \E r \in Outcomes(VaultAnswers, "vault", k) :
         LET o == ops[s]
             o1 == [o EXCEPT !.resp[k] = [method |-> "balanceOf",
                                          market |-> o.tokens[k].address,
                                          value |-> r[2]]]
         IN  IF r[1] = "throw" THEN Settle(s, Throw(o, r[2]))
             ELSE IF r[2][1] > 0
             THEN Settle(s, [o1 EXCEPT !.st[k] = "underlying2"])
             ELSE Settle(s, VaultCallbackDone(o1, k))
    /\ Quiet

\* vault getPositions: the second getUnderlyingToken of token k settles and
\* the position is pushed.
VaultPush(s, k) ==
    /\ adapter = "vault" /\ InTokens(s, "getPositions", k, "underlying2")
    /\ LET o == ops[s]
       IN  \E r \in FetchPoolMetadata(o.tokens[k].address) :
             IF r[1] = "throw" THEN Settle(s, Throw(o, r[2]))
             ELSE LET p == VaultPosition(o.tokens[k], r[2].underlyingToken,
                                         o.resp[k].value)
                  IN  IF p[1] = "throw" THEN Settle(s, Throw(o, p[2]))
                      ELSE Settle(s, VaultCallbackDone(
                               [o EXCEPT !.rows = Append(o.rows, p[2])], k))
    /\ Quiet

\* pool getTotalValueLocked: the lens totals read of token k settles.  The
\* aave callback returns its entry; the compound callback goes on to read
\* the exchange rate.
TotalsAnswer(s, k) ==
    /\ adapter # "vault" /\ InTokens(s, "getTotalValueLocked", k, "totals")
    /\ \E r \in Outcomes(TotalsAnswers, "totals", k) :
         LET o == ops[s]
             o1 == [o EXCEPT
                      !.resp[k] = [method |-> TotalsMethod(positionType),
                                   market |-> o.tokens[k].address,
                                   value |-> r[2], rate |-> <<>>]]
             totalValueRaw == TotalValueRaw(r[2])
         IN  IF r[1] = "throw" THEN Settle(s, Throw(o, r[2]))
             ELSE IF adapter = "compound"
             THEN Settle(s, [o1 EXCEPT !.st[k] = "rate"])
             ELSE Settle(s, RowDone(o1, k,
                                    <<PoolTvl(o.tokens[k], totalValueRaw)>>))
    /\ Quiet

\* compound getTotalValueLocked: exchangeRateStored of token k settles and
\* the total is divided by the rate.
RateAnswer(s, k) ==
    /\ adapter = "compound" /\ InTokens(s, "getTotalValueLocked", k, "rate")
    /\ \E r \in Outcomes(RateAnswers, "exchangeRateStored", k) :
         LET o == ops[s]
             totalValueRaw == TotalValueRaw(o.resp[k].value)
         IN  IF r[1] = "throw" THEN Settle(s, Throw(o, r[2]))
             ELSE \E w \in TvlInProtocolTokens(totalValueRaw, r[2]) :
                    LET o1 == [o EXCEPT !.resp[k].rate = <<r[2]>>]
                    IN  IF w[1] = "throw" THEN Settle(s, Throw(o1, w[2]))
                        ELSE Settle(s, RowDone(o1, k,
                                               <<PoolTvl(o.tokens[k], w[2])>>))
    /\ Quiet

\* vault getTotalValueLocked: totalAssets of token k settles.
AssetsAnswer(s, k) ==
    /\ adapter = "vault" /\ InTokens(s, "getTotalValueLocked", k, "assets")
    /\ \E r \in Outcomes(AssetsAnswers, "totalAssets", k) :
         LET o == ops[s]
             o1 == [o EXCEPT !.resp[k] = [method |-> "totalAssets",
                                          market |-> o.tokens[k].address,
                                          value |-> r[2]]]
         IN  IF r[1] = "throw" THEN Settle(s, Throw(o, r[2]))
             ELSE Settle(s, RowDone(o1, k,
                            <<VaultTvl(o.tokens[k],
                                       o.found[k][1].underlyingToken, r[2])>>))
    /\ Quiet

\* vault getMovements and unwrap: getUnderlyingToken settles.  unwrap
\* returns; getMovements goes on to the event query.
LookupAnswer(s) ==
    /\ adapter = "vault" /\ Pending(ops[s]) /\ ops[s].stage = "underlying"
    /\ LET o == ops[s]
       IN  \E r \in FetchPoolMetadata(o.addr) :
             IF r[1] = "throw" THEN Settle(s, Throw(o, r[2]))
             ELSE IF o.kind = "unwrap"
             THEN Settle(s, Return([o EXCEPT !.entry2 = <<r[2]>>],
                            unwrapOneToOne(o.entry[1].protocolToken,
                                           <<r[2].underlyingToken>>)))
             ELSE Settle(s, [o EXCEPT !.entry2 = <<r[2]>>,
                                      !.stage = "logs"])
    /\ Quiet

\* getMovements: the event query settles.  Compound and the vault map the
\* logs in the same turn; aave looks every log's _poolToken up.
LogsAnswer(s) ==
    /\ Pending(ops[s]) /\ ops[s].stage = "logs"
    /\ \E r \in Outcomes(LogAnswers(ops[s].addr), "queryFilter", 0) :
         LET o == [ops[s] EXCEPT !.logs = IF r[1] = "ok" THEN r[2] ELSE <<>>]
             n == Len(o.logs)
         IN  IF r[1] = "throw" THEN Settle(s, Throw(o, r[2]))
             ELSE IF adapter = "compound"
             THEN Settle(s, Return(o, [k \in 1..n |->
                                CompoundMovement(o.entry[1], o.logs[k])]))
             ELSE IF adapter = "vault"
             THEN Settle(s, Return(o, [k \in 1..n |->
                                VaultMovement(o.entry[1].protocolToken,
                                              o.entry2[1].underlyingToken,
                                              o.logs[k])]))
             ELSE LET st == [k \in 1..n |-> IF o.logs[k].hasArgs
                                            THEN "lookup" ELSE "done"]
                      o1 == [o EXCEPT !.st = st,
                                      !.rows = [k \in 1..n |-> <<>>],
                                      !.stage = "movements"]
                  IN  IF AllIn(st, {"done"})
                      THEN Settle(s, Return(o1, <<>>))
                      ELSE Settle(s, o1)
    /\ Quiet

\* aave getMovements: the two lookups of log k's _poolToken settle.
MovementLookup(s, k) ==
    /\ adapter = "aave" /\ Pending(ops[s]) /\ ops[s].stage = "movements"
    /\ k \in 1..Len(ops[s].st) /\ ops[s].st[k] = "lookup"
    /\ LET o == ops[s]
           a == o.logs[k].args.poolToken
       IN  \E r1 \in FetchPoolMetadata(a), r2 \in FetchPoolMetadata(a) :
             IF r1[1] = "throw" THEN Settle(s, Throw(o, r1[2]))
             ELSE IF r2[1] = "throw" THEN Settle(s, Throw(o, r2[2]))
             ELSE Settle(s, RowDone(o, k,
                            <<AaveMovement(r1[2], r2[2], o.logs[k])>>))
    /\ Quiet

\* ----------------------------------------------------------- specifications
Completes(s) ==
    \/ RegistryAnswer(s)
    \/ LookupAnswer(s)
    \/ LogsAnswer(s)
    \/ \E k \in 1..MaxMarkets :
         \/ UnderlyingAnswer(s, k)
         \/ TokenMetadataAnswer(s, k)
         \/ BalanceAnswer(s, k)
         \/ DetailsAnswer(s, k)
         \/ VaultUnderlyingAnswer(s, k)
         \/ VaultReadsAnswer(s, k)
         \/ VaultPush(s, k)
         \/ TotalsAnswer(s, k)
         \/ RateAnswer(s, k)
         \/ AssetsAnswer(s, k)
    \/ \E k \in 1..MaxLogs : MovementLookup(s, k)

Calls(s) ==
    \/ CallBuildMetadata(s)
    \/ CallGetProtocolTokens(s)
    \/ CallGetPositions(s)
    \/ CallGetTotalValueLocked(s)
    \/ CallGetDeposits(s)
    \/ CallGetWithdrawals(s)
    \/ CallGetBorrows(s)
    \/ CallGetRepays(s)
    \/ CallUnwrap(s)

\* One operation at a time on the instance.
Next ==
    \/ RegistryGains
    \/ Calls(1)
    \/ Completes(1)
    \/ Await(1)

Spec == Init /\ [][Next]_vars

\* Two callers share one compound instance: each may call buildMetadata or
\* getProtocolTokens while the other's call is between two awaits.
InitConcurrent == Init /\ adapter = "compound"

NextConcurrent ==
    \/ RegistryGains
    \/ \E s \in Slots :
         \/ CallBuildMetadata(s)
         \/ CallGetProtocolTokens(s)
         \/ RegistryAnswer(s)
         \/ Await(s)
         \/ \E k \in 1..MaxMarkets :
              \/ UnderlyingAnswer(s, k)
              \/ TokenMetadataAnswer(s, k)

SpecConcurrent == InitConcurrent /\ [][NextConcurrent]_vars

\* There is no timeout and no cancellation: a per-market call that the
\* provider never answers stays outstanding.
InFlight == {"underlying", "meta", "balance", "details", "reads",
             "underlying2", "totals", "rate", "assets"}

Awaited(o) == IF o.stage = "markets" THEN o.task
              ELSE IF o.stage \in {"tokens", "details"} THEN o.st
              ELSE <<>>

StalledCalls(o) == {k \in 1..Len(Awaited(o)) : Awaited(o)[k] = "stalled"}

\* Call k of the operation's current fan-out stalls: nothing of the
\* operation's code runs on its account, ever.  One call stalls at most.
Stalls(s, k) ==
    /\ Pending(ops[s])
    /\ StalledCalls(ops[s]) = {}
    /\ k \in 1..Len(Awaited(ops[s]))
    /\ Awaited(ops[s])[k] \in InFlight
    /\ LET o == ops[s]
       IN  IF o.stage = "markets"
           THEN Settle(s, [o EXCEPT !.task[k] = "stalled"])
           ELSE Settle(s, [o EXCEPT !.st[k] = "stalled"])
    /\ Quiet

\* The operations that fan out over the markets, with a provider that may
\* leave one call unanswered.
NextStall ==
    \/ RegistryGains
    \/ CallBuildMetadata(1)
    \/ CallGetPositions(1)
    \/ CallGetTotalValueLocked(1)
    \/ RegistryAnswer(1)
    \/ Await(1)
    \/ \E k \in 1..MaxMarkets :
         \/ UnderlyingAnswer(1, k)
         \/ TokenMetadataAnswer(1, k)
         \/ BalanceAnswer(1, k)
         \/ DetailsAnswer(1, k)
         \/ VaultUnderlyingAnswer(1, k)
         \/ VaultReadsAnswer(1, k)
         \/ VaultPush(1, k)
         \/ TotalsAnswer(1, k)
         \/ RateAnswer(1, k)
         \/ AssetsAnswer(1, k)
         \/ Stalls(1, k)

SpecStall == Init /\ [][NextStall]_vars

\* The pool adapters' base classes branch on whatever positionType the
\* leaf class's getProtocolDetails() returns: getPositions and
\* getTotalValueLocked of a supply and of a borrow leaf of either base
\* class.
InitSides ==
    /\ adapter \in {"compound", "aave"}
    /\ positionType \in {"supply", "borrow"}
    /\ nMarkets = 1
    /\ cache = <<>>
    /\ ops = [s \in Slots |-> Idle]
    /\ enumerations = 0
    /\ assignments = 0
    /\ built = <<>>

NextSides ==
    \/ RegistryGains
    \/ CallGetPositions(1)
    \/ CallGetTotalValueLocked(1)
    \/ RegistryAnswer(1)
    \/ Await(1)
    \/ \E k \in 1..MaxMarkets :
         \/ UnderlyingAnswer(1, k)
         \/ TokenMetadataAnswer(1, k)
         \/ BalanceAnswer(1, k)
         \/ DetailsAnswer(1, k)
         \/ TotalsAnswer(1, k)
         \/ RateAnswer(1, k)

SpecSides == InitSides /\ [][NextSides]_vars

\* Every RPC call the operation has issued eventually completes, with a
\* value or an error: the continuation that waits for it runs.
SpecFair == Spec /\ WF_vars(Completes(1))

\* ---------------------------------------------------------------- properties
\* The operation the single caller of Spec has in flight or has last seen
\* settle.
Op == ops[1]

\* The keys buildMetadata files the markets of the registry, as it stands,
\* under.
MetadataKeys ==
    {EntryKey(MarketAddress(m), getTokenMetadata(MarketAddress(m))) :
        m \in 1..nMarkets}

IsRpcError(e) == e.error = "rpc"

\* The operations that take a protocolTokenAddress and look it up.
TakesAddress(o) ==
    o.kind = "getMovements" \/ (o.kind = "unwrap" /\ adapter = "vault")

\* C1, as stated: in every adapter, a getDeposits, getWithdrawals,
\* getBorrows or getRepays (and the vault's unwrap) called with an address
\* that is not a key of the metadata mapping never returns a result, an
\* empty list included: it fails with 'Protocol token pool not found'
\* (or with the rejection of an RPC call that came first).
C1_UnknownAddressFails ==
    (/\ TakesAddress(Op)
     /\ Op.out \in {"ok", "err"}
     /\ Op.addr \notin MetadataKeys)
    => (Op.out = "err" /\ (Op.error = NotFound \/ IsRpcError(Op.error)))

\* The balance the read of token k answered: the lens's total balance in
\* the pool adapters, balanceOf in the vault adapter.
ReadBalance(o, k) ==
    IF adapter = "vault" THEN o.resp[k].value[1] ELSE o.resp[k].value[3]

EntriesOf(result, a) == {i \in 1..Len(result) : result[i].address = a}

\* C2: no position getPositions returns has balanceRaw 0; a token whose
\* balance read answered 0 has no entry in the result, and a token whose
\* read answered a non-zero balance has exactly one, carrying that balance.
C2_NoZeroBalancePositions ==
    (Op.kind = "getPositions" /\ Op.out = "ok")
    => /\ \A i \in 1..Len(Op.result) :
            /\ Op.result[i].balanceRaw # 0
            /\ \E k \in 1..Len(Op.tokens) :
                 /\ Op.result[i].address = Op.tokens[k].address
                 /\ Op.result[i].balanceRaw = ReadBalance(Op, k)
       /\ \A k \in 1..Len(Op.tokens) :
            Cardinality(EntriesOf(Op.result, Op.tokens[k].address))
                = IF ReadBalance(Op, k) # 0 THEN 1 ELSE 0

\* C2's case: of two markets one holds a balance and the other none, and
\* getPositions returned the one position.
C2_Witness ==
    /\ Op.kind = "getPositions" /\ Op.out = "ok"
    /\ Len(Op.tokens) = 2 /\ Len(Op.result) = 1
    /\ \E j, k \in 1..2 : ReadBalance(Op, j) = 0 /\ ReadBalance(Op, k) # 0

\* C3, as stated: every movement getDeposits, getWithdrawals, getBorrows or
\* getRepays returns for protocolTokenAddress A has protocolToken.address
\* equal to A, in all three adapters.
C3_MovementTokenIsQueried ==
    (Op.kind = "getMovements" /\ Op.out = "ok")
    => \A i \in 1..Len(Op.result) :
          Op.result[i].protocolToken.address = Op.addr

\* C4: the aave adapter's getTotalValueLocked returns one entry per
\* protocol token of the metadata (one per market the registry listed), and
\* each entry's totalSupplyRaw is the sum of the two totals the lens
\* answered for that market, read with the supply method on the supply
\* side and the borrow method on the borrow side.
C4_AaveTvlIsPoolPlusP2p ==
    (adapter = "aave" /\ Op.kind = "getTotalValueLocked" /\ Op.out = "ok")
    => /\ Len(Op.result) = Len(Op.tokens)
       /\ Len(Op.tokens) = Len(Op.markets)
       /\ {Op.tokens[k].address : k \in 1..Len(Op.tokens)}
              = {Op.markets[k] : k \in 1..Len(Op.markets)}
       /\ \A k \in 1..Len(Op.tokens) :
            /\ Op.result[k].address = Op.tokens[k].address
            /\ Op.resp[k].market = Op.tokens[k].address
            /\ Op.resp[k].method = (IF positionType = "supply"
                                    THEN "getTotalMarketSupply"
                                    ELSE "getTotalMarketBorrow")
            /\ Op.result[k].totalSupplyRaw
                   = Op.resp[k].value[1] + Op.resp[k].value[2]

\* C4's case: two markets, one of them with totals on both sides.
C4_Witness ==
    /\ adapter = "aave" /\ Op.kind = "getTotalValueLocked" /\ Op.out = "ok"
    /\ Len(Op.result) = 2
    /\ \E j, k \in 1..2 : /\ Op.result[j].totalSupplyRaw = 3
                          /\ Op.resp[j].value = <<1, 2>>
                          /\ Op.result[k].totalSupplyRaw = 0

IsCompoundTvl(o) == adapter = "compound" /\ o.kind = "getTotalValueLocked"

\* C5, as stated: the compound adapter's getTotalValueLocked returns a
\* value for every exchange rate the contract can report, 0 included: once
\* the reads have answered it does not fail.
C5_TvlForEveryRate ==
    (IsCompoundTvl(Op) /\ Op.out = "err") => IsRpcError(Op.error)

\* C5, amended: for every token whose exchange rate is not 0 the compound
\* adapter's totalSupplyRaw is ((pool + p2p) * WAD + rate / 2) div rate; a
\* rate of 0 is reported only with a total of 0, and the one failure that
\* is not an RPC rejection is the division by a rate of 0.
C5_TvlForNonZeroRate ==
    IsCompoundTvl(Op)
    => /\ Op.out = "ok" =>
            /\ Len(Op.result) = Len(Op.tokens)
            /\ \A k \in 1..Len(Op.tokens) :
                 LET total == Op.resp[k].value[1] + Op.resp[k].value[2]
                     rate == Op.resp[k].rate[1]
                 IN  /\ Op.result[k].address = Op.tokens[k].address
                     /\ rate # 0 => Op.result[k].totalSupplyRaw
                                      = (total * WAD + rate \div 2) \div rate
                     /\ rate = 0 => (total = 0
                                     /\ Op.result[k].totalSupplyRaw = 0)
       /\ (Op.out = "err" /\ ~IsRpcError(Op.error)) =>
            /\ Op.error = RangeError("Division by zero")
            /\ \E k \in 1..Len(Op.resp) :
                 Op.resp[k] # NoAnswer /\ Op.resp[k].rate = <<0>>

\* C5's case: a market with totals 1 and 2 and a rate of 40.
C5_Witness ==
    /\ IsCompoundTvl(Op) /\ Op.out = "ok"
    /\ \E k \in 1..Len(Op.result) :
         /\ Op.resp[k].value = <<1, 2>> /\ Op.resp[k].rate = <<40>>
         /\ Op.result[k].totalSupplyRaw = (3 * WAD + 20) \div 40

\* A metadata object as a mapping: its entries, whatever their order.
AsMapping(md) == {md[i] : i \in 1..Len(md)}

NoKeyTwice(md) == \A i, j \in 1..Len(md) : md[i].key = md[j].key => i = j

C8_CachePopulatedOnce == enumerations <= 1 /\ assignments <= 1

Rejected(answer) == answer.method = "underlying" /\ answer.value[1] = "throw"

\* C9: in the pool adapters a rejected underlying-asset call never fails
\* buildMetadata: the market's underlying address becomes the zero
\* address, the callback goes on to fetch the token metadata, and the
\* mapping returned holds the zero address's metadata as the market's
\* underlying token.
C9_UnderlyingFailureNotFatal ==
    adapter # "vault"
    => /\ Op.out = "err" =>
            \A k \in Markets : Op.error \notin Rejections("underlying", k)
       /\ (Pending(Op) /\ Op.stage = "markets") =>
            \A k \in 1..Len(Op.task) :
               Rejected(Op.resp[k]) => /\ Op.task[k] \in {"meta", "done"}
                                       /\ Op.supply[k] = ZERO_ADDRESS
       /\ (Op.kind = "buildMetadata" /\ Op.out = "ok") =>
            \A k \in 1..Len(Op.markets) :
               Rejected(Op.resp[k]) =>
                  \E i \in 1..Len(Op.result) :
                     /\ Op.result[i].key = Op.markets[k]
                     /\ Op.result[i].underlyingToken
                            = getTokenMetadata(ZERO_ADDRESS)

\* C9's case: buildMetadata returned although a market's underlying call
\* was rejected.
C9_Witness ==
    /\ adapter # "vault"
    /\ Op.kind = "buildMetadata" /\ Op.out = "ok"
    /\ \E k \in 1..Len(Op.markets) :
         /\ Rejected(Op.resp[k])
         /\ \E i \in 1..Len(Op.result) :
              /\ Op.result[i].key = Op.markets[k]
              /\ Op.result[i].underlyingToken.address = ZERO_ADDRESS

Batch(o) == o.kind \in {"buildMetadata", "getPositions", "getTotalValueLocked"}

\* C10: a buildMetadata, getPositions or getTotalValueLocked returns only
\* when every per-market call has answered: a returned mapping holds every
\* market the registry listed and a returned list rests on an answer for
\* every token it covers; a failed operation returns nothing, and a
\* compound build that failed left _metadataCache null.
C10_SingleFailureFailsAll ==
    Batch(Op)
    => /\ (Op.kind = "buildMetadata" /\ Op.out = "ok") =>
            \A k \in 1..Len(Op.markets) :
               \E i \in 1..Len(Op.result) : Op.result[i].key = Op.markets[k]
       /\ (Op.kind # "buildMetadata" /\ Op.out = "ok") =>
            \A k \in 1..Len(Op.tokens) :
               \/ Op.resp[k] # NoAnswer
               \/ (Op.kind = "getTotalValueLocked" /\ adapter = "vault"
                   /\ TvlSkips(Op.tokens[k], Op.filter))
       /\ Op.out \in {"err", "pending"} => Op.result = <<>>
       /\ (/\ adapter = "compound" /\ Op.out = "err"
           /\ IsRpcError(Op.error)
           /\ Op.error.call \in {"registry", "getTokenMetadata"})
          => cache = <<>> /\ assignments = 0

\* C10's case: of two markets' balance reads one answered and the other
\* was rejected, and getPositions failed with that rejection.
C10_Witness ==
    /\ Op.kind = "getPositions" /\ Op.out = "err"
    /\ Len(Op.tokens) = 2
    /\ \E j, k \in 1..2 :
         /\ Op.resp[j] # NoAnswer /\ Op.resp[k] = NoAnswer
         /\ Op.error \in Rejections("balance", k)

\* The Erc20Metadata fields of a token record.
Erc20Of(t) == [address |-> t.address, name |-> t.name, symbol |-> t.symbol,
               decimals |-> t.decimals]

\* The underlying tokens the metadata can hold for protocol token a: the
\* compound cache's entry; in the aave adapter, whose lookups rebuild the
\* mapping, the metadata of the market's asset or of the zero address.
HeldUnderlying(a) ==
    IF adapter = "compound"
    THEN {Get(cache[1], a)[i].underlyingToken :
             i \in 1..Len(Get(cache[1], a))}
    ELSE {getTokenMetadata(u) : u \in SupplyAddresses(a.id)}

\* C11: in the pool adapters every position getPositions returns carries
\* exactly one underlying token, the metadata's underlyingToken of the
\* position's address, with the position's own balanceRaw, which is the
\* third component of the lens's answer for that market.
C11_PoolPositionUnwrapsOneToOne ==
    (adapter # "vault" /\ Op.kind = "getPositions" /\ Op.out = "ok")
    => \A i \in 1..Len(Op.result) :
          LET p == Op.result[i]
          IN  /\ Len(p.tokens) = 1
              /\ p.tokens[1].type = "underlying"
              /\ p.tokens[1].balanceRaw = p.balanceRaw
              /\ Erc20Of(p.tokens[1]) \in HeldUnderlying(p.address)
              /\ \E k \in 1..Len(Op.tokens) :
                    /\ Op.tokens[k].address = p.address
                    /\ p.balanceRaw = Op.resp[k].value[3]

\* C11's case: a pool adapter returned a position of balance 3.
C11_Witness ==
    /\ adapter # "vault" /\ Op.kind = "getPositions" /\ Op.out = "ok"
    /\ \E i \in 1..Len(Op.result) :
         /\ Op.result[i].balanceRaw = 3
         /\ Op.result[i].tokens[1].balanceRaw = 3

IsVaultPositions(o) == adapter = "vault" /\ o.kind = "getPositions"

\* C12, as stated: the vault adapter's getPositions returns a result for
\* every pair of vault and asset decimals, pairs with vaultDecimals below
\* assetDecimals included: once the reads have answered it does not fail.
C12_PositionsForEveryDecimals ==
    (IsVaultPositions(Op) /\ Op.out = "err") => IsRpcError(Op.error)

\* C12, amended: every position the vault adapter's getPositions returns
\* has vaultDecimals at least assetDecimals and carries exactly one
\* underlying token, whose balanceRaw is the share balance divided,
\* rounding down, by 10^(vaultDecimals - assetDecimals); the one failure
\* that is not an RPC rejection is the negative exponent of a vault with a
\* positive balance and vaultDecimals below assetDecimals.
C12_VaultPositionDividesByDecimals ==
    IsVaultPositions(Op)
    => /\ Op.out = "ok" =>
            \A i \in 1..Len(Op.result) :
               LET p == Op.result[i]
               IN  /\ Len(p.tokens) = 1
                   /\ \E k \in 1..Len(Op.tokens) :
                        LET a == Op.resp[k].value
                        IN  /\ Op.tokens[k].address = p.address
                            /\ a[2] >= a[3]
                            /\ p.balanceRaw = a[1]
                            /\ p.tokens[1].balanceRaw
                                   = a[1] \div Pow10(a[2] - a[3])
       /\ (Op.out = "err" /\ ~IsRpcError(Op.error)) =>
            /\ Op.error = RangeError("Exponent must be non-negative")
            /\ \E k \in 1..Len(Op.resp) :
                 /\ Op.resp[k] # NoAnswer
                 /\ Op.resp[k].value[1] > 0
                 /\ Op.resp[k].value[2] < Op.resp[k].value[3]

\* C12's case: 25 shares of a vault with one decimal more than its asset.
C12_Witness ==
    /\ IsVaultPositions(Op) /\ Op.out = "ok"
    /\ \E i \in 1..Len(Op.result) :
         /\ Op.result[i].balanceRaw = 25
         /\ Op.result[i].tokens[1].balanceRaw = 2

\* C13, as stated: a movement query that succeeds returns one movement per
\* log of the event query, in the logs' order; the i-th movement has the
\* i-th log's blockNumber and transactionHash and exactly one underlying
\* token, the queried market's underlyingToken of the metadata, with
\* balanceRaw equal to that log's amount.
C13_OneMovementPerLog ==
    (Op.kind = "getMovements" /\ Op.out = "ok")
    => /\ Len(Op.result) = Len(Op.logs)
       /\ \A i \in 1..Len(Op.result) :
            LET mv == Op.result[i]
                log == Op.logs[i]
            IN  /\ mv.blockNumber = log.blockNumber
                /\ mv.transactionHash = log.transactionHash
                /\ Len(mv.tokens) = 1
                /\ mv.tokens[1].type = "underlying"
                /\ Erc20Of(mv.tokens[1])
                       \in {getTokenMetadata(u) :
                               u \in SupplyAddresses(Op.addr.id)}
                /\ mv.tokens[1].balanceRaw = log.args.amount

\* C19, as stated: every movement the vault adapter returns for getDeposits
\* or getWithdrawals carries an underlying balanceRaw exactly equal to the
\* assets amount of its log, for every amount a uint256 can hold.
C19_VaultAmountExact ==
    (adapter = "vault" /\ Op.kind = "getMovements" /\ Op.out = "ok"
     /\ Op.eventType \in {"deposit", "withdraw"})
    => \A i \in 1..Len(Op.result) :
          \A j \in 1..Len(Op.result[i].tokens) :
             Op.result[i].tokens[j].balanceRaw = Op.logs[i].args.amount

OneOutcome(o) ==
    \/ o.out = "ok" /\ o.error = Undefined
    \/ o.out = "err" /\ o.error # Undefined /\ o.result = <<>>

\* C15: every operation either returns data or throws.  Provided every RPC
\* call it issues eventually completes, a called operation eventually
\* completes; once it has completed, in exactly one of the two outcomes,
\* nothing of it runs again (no call is re-issued after a failure) until
\* the caller has taken the outcome.
C15_ReturnsOrThrows ==
    /\ []<>~Pending(Op)
    /\ [](Op # Idle /\ ~Pending(Op) => OneOutcome(Op))
    /\ [][(Op # Idle /\ ~Pending(Op)) => Op' \in {Op, Idle}]_vars

\* An operation has failed on an RPC rejection after several of its calls
\* had been answered.
C15_Witness ==
    /\ Op.out = "err" /\ IsRpcError(Op.error)
    /\ Op.kind \in {"getPositions", "getTotalValueLocked"}
    /\ Len(Op.resp) > 1

\* The stages of buildMetadata's own code: the registry read and the
\* per-market callbacks that fill the mapping.
BuildStages == {"registry", "markets"}

Enumerated(o) == o.kind = "buildMetadata" /\ o.out = "ok" /\ o.markets # <<>>

\* The entry of the k-th market operation o enumerated, with the metadata
\* of the token at address u as its underlying token.
MarketEntry(o, k, u) ==
    LET protocolToken == getTokenMetadata(o.markets[k])
    IN  [key |-> EntryKey(o.markets[k], protocolToken),
         protocolToken |-> protocolToken,
         underlyingToken |-> getTokenMetadata(u)]

\* C17, as stated: a successful buildMetadata returns a mapping whose
\* entries are exactly, for every market the registry enumerated, the
\* metadata of the market under its protocol-token address with the
\* metadata of the market's own underlying asset, whatever the order in
\* which the per-market calls completed.
C17_MappingIsRegistry ==
    Enumerated(Op)
    => AsMapping(Op.result) =
          {MarketEntry(Op, k, UnderlyingAsset(k)) : k \in 1..Len(Op.markets)}

\* C17, as the code has it: a successful buildMetadata returns a mapping
\* with no key twice whose entries are exactly, for every market the
\* registry enumerated, the metadata of the market under its protocol-token
\* address with the metadata of the market's own underlying asset, or of
\* the zero address when the pool adapter's underlying-asset call of that
\* market was rejected; the mapping depends on the answers alone, not on
\* the order in which the per-market calls completed.
C17_MappingIsRegistryOrZero ==
    Enumerated(Op)
    => /\ NoKeyTwice(Op.result)
       /\ AsMapping(Op.result) =
             {MarketEntry(Op, k, IF Rejected(Op.resp[k]) THEN ZERO_ADDRESS
                                 ELSE UnderlyingAsset(k)) :
                 k \in 1..Len(Op.markets)}

\* buildMetadata returned two markets, the second one's callback having
\* finished first.
C17_Witness ==
    /\ Enumerated(Op) /\ Len(Op.markets) = 2 /\ Len(Op.result) = 2
    /\ Op.result[1].protocolToken = getTokenMetadata(Op.markets[2])

\* The lens methods, by the side they report and the operation that reads
\* them.
LensReads ==
    [supply |-> [getPositions |-> "getCurrentSupplyBalanceInOf",
                 getTotalValueLocked |-> "getTotalMarketSupply"],
     borrow |-> [getPositions |-> "getCurrentBorrowBalanceInOf",
                 getTotalValueLocked |-> "getTotalMarketBorrow"]]

LensMethods ==
    {LensReads[side][kind] : side \in {"supply", "borrow"},
                             kind \in {"getPositions", "getTotalValueLocked"}}

\* The lens reads operation o has had answered.
LensAnswers(o) ==
    {k \in 1..Len(o.resp) : o.resp[k].method \in LensMethods}

\* C18: in the Compound and Aave pool adapters the side read from the lens
\* follows the adapter's positionType: every lens read of a getPositions
\* is the balance method of that side and every lens read of a
\* getTotalValueLocked the totals method of that side, so no operation
\* reads both sides.
C18_SideFollowsPositionType ==
    \A k \in LensAnswers(Op) :
       /\ Op.kind \in {"getPositions", "getTotalValueLocked"}
       /\ Op.resp[k].method = LensReads[positionType][Op.kind]

\* A compound supply adapter has returned the totals of two markets.
C18_Witness ==
    /\ adapter = "compound" /\ positionType = "supply"
    /\ Op.kind = "getTotalValueLocked" /\ Op.out = "ok"
    /\ Cardinality(LensAnswers(Op)) = 2

\* The place of the token at address a among the tokens operation o got
\* from getProtocolTokens.
TokenIndex(o, a) == CHOOSE k \in 1..Len(o.tokens) : o.tokens[k].address = a

\* C20, as stated: in every adapter the positions getPositions returns are
\* in the order in which getProtocolTokens returned their tokens, whatever
\* the order in which the per-market RPC calls completed.
C20_PositionsInTokenOrder ==
    (Op.kind = "getPositions" /\ Op.out = "ok")
    => \A i, j \in 1..Len(Op.result) :
          i < j => TokenIndex(Op, Op.result[i].address)
                      < TokenIndex(Op, Op.result[j].address)

\* The caller passed protocolTokenAddresses to a getPositions or a
\* getTotalValueLocked.
Filtered(o) ==
    o.kind \in {"getPositions", "getTotalValueLocked"} /\ o.filter # <<>>

\* Address a is one of the addresses passed (the same 20 bytes, in
\* whatever letter case).
Passed(o, a) == \E b \in o.filter[1] : b.id = a.id

\* C21, as stated: when protocolTokenAddresses is passed, a getPositions or
\* getTotalValueLocked of any adapter has no balance or totals read
\* answered for a protocol token outside the list and returns no entry for
\* one.
C21_OnlyPassedTokens ==
    Filtered(Op)
    => /\ \A k \in 1..Len(Op.resp) :
             Op.resp[k].method \notin {"none", "underlying"}
                => Passed(Op, Op.resp[k].market)
       /\ Op.out = "ok" =>
             \A i \in 1..Len(Op.result) : Passed(Op, Op.result[i].address)

\* The vault's getPositions considers token t of protocolTokens when called
\* with this protocolTokenAddresses.
PositionsConsiders(protocolTokens, filter, t) ==
    \E i \in 1..Len(FilteredTokens(protocolTokens, filter)) :
       FilteredTokens(protocolTokens, filter)[i] = t

\* C22, as stated: in the vault adapter, for the protocol tokens of the
\* metadata and the protocolTokenAddresses a getTotalValueLocked was called
\* with, getTotalValueLocked goes on to read a vault if and only if
\* getPositions keeps it, also when a passed address is the lowercase
\* spelling of the vault's address.
C22_SameSelection ==
    (adapter = "vault" /\ Op.kind = "getTotalValueLocked")
    => \A k \in 1..Len(Op.tokens) :
          PositionsConsiders(Op.tokens, Op.filter, Op.tokens[k])
             <=> ~TvlSkips(Op.tokens[k], Op.filter)

\* The keys of the mapping the first buildMetadata of operation o built
\* from the markets it enumerated.
KeysEnumerated(o) ==
    {EntryKey(o.markets[k], getTokenMetadata(o.markets[k])) :
        k \in 1..Len(o.markets)}

\* unwrap of a pool adapter: thrown from the call itself, nothing read.
PoolUnwrapThrows(o) ==
    /\ o.out = "err" /\ o.error = NotImplementedError
    /\ o.markets = <<>> /\ o.resp = <<>> /\ o.entry = <<>>

\* unwrap of the vault adapter, once settled.
VaultUnwrapResolves(o) ==
    /\ o.out = "ok" =>
          /\ o.addr \in KeysEnumerated(o)
          /\ o.result.address = o.addr
          /\ o.result.baseRate = 1
          /\ Len(o.result.tokens) = 1
          /\ o.result.tokens[1].address = UnderlyingAsset(o.addr.id)
          /\ o.result.tokens[1].type = "underlying"
          /\ o.result.tokens[1].underlyingRateRaw
                = Pow10(TokenDecimals(o.addr.id))
    /\ o.out = "err" =>
          \/ IsRpcError(o.error)
          \/ o.error = NotFound /\ o.addr \notin KeysEnumerated(o)

\* C23: unwrap of the Compound and Aave pool adapters fails with
\* NotImplementedError for every address, in the call itself: it is never
\* pending, reads nothing, and leaves the metadata cache and the count of
\* registry reads as they were.  unwrap of the vault adapter looks the
\* address up in the metadata: it fails with 'Protocol token pool not
\* found' when the address is no key of it (or with the rejection of an
\* RPC call), and otherwise returns the protocol token unwrapped one to one
\* into its single underlying token.
C23_Unwrap ==
    /\ [](Op.kind = "unwrap" =>
            IF adapter = "vault"
            THEN ~Pending(Op) => VaultUnwrapResolves(Op)
            ELSE PoolUnwrapThrows(Op))
    /\ [][(Op'.kind = "unwrap" /\ adapter # "vault")
             => (cache' = cache /\ enumerations' = enumerations
                 /\ assignments' = assignments)]_vars

\* The vault adapter has unwrapped the second vault of the registry.
C23_Witness ==
    /\ adapter = "vault" /\ Op.kind = "unwrap" /\ Op.out = "ok"
    /\ Op.addr = MarketAddress(2)
====
